---------------------------- MODULE Spec2Model ----------------------------
(***************************************************************************)
(* PureHTTP: the three Tauri commands of src/main.rs                       *)
(*   execute_request  (request builder, dispatch, response normalizer)     *)
(*   save_request / load_request  (file dialog + std::fs)                  *)
(*                                                                         *)
(* Text (a Rust String / &str) is a sequence of one-character strings.     *)
(* Option<T> is a sequence of length 0 (None) or 1 (Some).                 *)
(* Result<T, String> is a record tagged "Ok" or "Err".                     *)
(***************************************************************************)
EXTENDS Integers, Sequences, FiniteSets, TLC

VARIABLES
    pc,               \* per invocation: "idle", "send" (awaiting send()), "text" (awaiting text()), "done"
    call,             \* per invocation: Option of the arguments [method, url, headers, body]
    request_builder,  \* per invocation: Option of the request built before send()
    response,         \* per invocation: Option of the raw response [status, headers]
    normalized,       \* per invocation: Option of the locals [status, status_text, headers_text]
    text,             \* per invocation: Option of the response text read by text().await
    result,           \* per invocation: Option of the returned Result<HttpResponse, String>
    sent,             \* the transport's log: one entry [id, req] per send() call
    fs,               \* the file system: path -> Option of the file's content
    file_result,      \* Option of the last save_request / load_request: [op, path, content, result]
    last_saved,       \* path -> Option of the content of the last successful save, if no write followed
    file_ops          \* number of save_request / load_request invocations so far

vars == <<pc, call, request_builder, response, normalized, text, result, sent,
          fs, file_result, last_saved, file_ops>>

http_vars == <<pc, call, request_builder, response, normalized, text, result, sent>>
file_vars == <<fs, file_result, last_saved, file_ops>>

---------------------------------------------------------------------------
(* Bounds of the model *)

MaxInv == 2
MaxHeadersLen == 5
MaxBodyLen == 2
MaxTextLen == 5
MaxRespHeaders == 2
MaxValueLen == 2
MaxContentLen == 2
MaxFileOps == 3

Invocations == 1..MaxInv

\* All texts over alphabet A of length at most n.
TextsUpTo(A, n) == UNION {[1..k -> A] : k \in 0..n}

None == <<>>
Some(x) == <<x>>

Ok(v) == [tag |-> "Ok", value |-> v]
Err(e) == [tag |-> "Err", error |-> e]

---------------------------------------------------------------------------
(* str::trim, str::lines, str::split_once *)

\* char::is_whitespace, on the characters the model uses
is_whitespace(c) == c \in {" ", "\t", "\n", "\r"}

RECURSIVE trim_start(_)
trim_start(s) ==
    IF s = <<>> THEN <<>>
    ELSE IF is_whitespace(Head(s)) THEN trim_start(Tail(s))
    ELSE s

RECURSIVE trim_end(_)
trim_end(s) ==
    IF s = <<>> THEN <<>>
    ELSE IF is_whitespace(s[Len(s)]) THEN trim_end(SubSeq(s, 1, Len(s) - 1))
    ELSE s

trim(s) == trim_end(trim_start(s))

\* Index of the first occurrence of character c in s, 0 when there is none.
find(s, c) ==
    IF \E k \in 1..Len(s) : s[k] = c
    THEN CHOOSE k \in 1..Len(s) : s[k] = c /\ \A j \in 1..(k - 1) : s[j] # c
    ELSE 0

\* Index of the last occurrence of character c in s, 0 when there is none.
rfind(s, c) ==
    IF \E k \in 1..Len(s) : s[k] = c
    THEN CHOOSE k \in 1..Len(s) : s[k] = c /\ \A j \in (k + 1)..Len(s) : s[j] # c
    ELSE 0

\* A line of str::lines(): the terminating "\n" is already cut; a "\r" before it is cut too.
strip_cr(line) ==
    IF line # <<>> /\ line[Len(line)] = "\r" THEN SubSeq(line, 1, Len(line) - 1) ELSE line

\* str::lines(): split after every "\n"; the last line needs no "\n" and keeps a bare "\r".
RECURSIVE lines(_)
lines(s) ==
    IF s = <<>> THEN <<>>
    ELSE LET k == find(s, "\n") IN
         IF k = 0 THEN <<s>>
         ELSE <<strip_cr(SubSeq(s, 1, k - 1))>> \o lines(SubSeq(s, k + 1, Len(s)))

\* str::rsplit_once(':'): the split a parser taking the last ':' would make.
rsplit_once(line) ==
    LET k == rfind(line, ":") IN
    IF k = 0 THEN None
    ELSE Some(<<SubSeq(line, 1, k - 1), SubSeq(line, k + 1, Len(line))>>)

\* str::split_once(':'): Some((before, after)) of the first ':', None when there is none.
split_once(line) ==
    LET k == find(line, ":") IN
    IF k = 0 THEN None
    ELSE Some(<<SubSeq(line, 1, k - 1), SubSeq(line, k + 1, Len(line))>>)

---------------------------------------------------------------------------
(* The request builder: execute_request up to send() *)

SupportedMethods == {"GET", "POST", "PUT", "PATCH", "DELETE"}

\* to_ascii_uppercase on the method strings the model uses
to_uppercase(method) ==
    CASE method = "get" -> "GET"
      [] method = "post" -> "POST"
      [] OTHER -> method

\* A match that ignores the case of the method.
new_builder_any_case(method, url) ==
    IF to_uppercase(method) \in SupportedMethods
    THEN Some([method |-> to_uppercase(method), url |-> url, headers |-> <<>>, body |-> None])
    ELSE None

\* match method.as_str() { "GET" => client.get(&url), ... , _ => return Err(..) }
\* None is the `_` arm.
new_builder(method, url) ==
    CASE method = "GET" -> Some([method |-> "GET", url |-> url, headers |-> <<>>, body |-> None])
      [] method = "POST" -> Some([method |-> "POST", url |-> url, headers |-> <<>>, body |-> None])
      [] method = "PUT" -> Some([method |-> "PUT", url |-> url, headers |-> <<>>, body |-> None])
      [] method = "PATCH" -> Some([method |-> "PATCH", url |-> url, headers |-> <<>>, body |-> None])
      [] method = "DELETE" -> Some([method |-> "DELETE", url |-> url, headers |-> <<>>, body |-> None])
      [] OTHER -> None

\* RequestBuilder::header(key, value): the pair is appended to the request's headers.
header(builder, key, value) ==
    [builder EXCEPT !.headers = Append(@, [name |-> key, value |-> value])]

\* The loop body with the line split at its last ':'.
add_header_line_rsplit(builder, raw_line) ==
    LET line == trim(raw_line) IN
    IF line # <<>>
    THEN LET kv == rsplit_once(line) IN
         IF kv # None
         THEN header(builder, trim(kv[1][1]), trim(kv[1][2]))
         ELSE builder
    ELSE builder

\* The body of the loop over headers.lines().
add_header_line(builder, raw_line) ==
    LET line == trim(raw_line) IN
    IF line # <<>>
    THEN LET kv == split_once(line) IN
         IF kv # None
         THEN header(builder, trim(kv[1][1]), trim(kv[1][2]))
         ELSE builder
    ELSE builder

RECURSIVE add_header_lines(_, _)
add_header_lines(builder, ls) ==
    IF ls = <<>> THEN builder
    ELSE add_header_lines(add_header_line(builder, Head(ls)), Tail(ls))

\* if !headers.trim().is_empty() { for line in headers.lines() { ... } }
add_headers(builder, headers) ==
    IF trim(headers) # <<>> THEN add_header_lines(builder, lines(headers)) ELSE builder

\* A body attached whenever it is present and not the empty string.
add_body_untrimmed(builder, body) ==
    IF body # None /\ body[1] # <<>>
    THEN [builder EXCEPT !.body = Some(body[1])]
    ELSE builder

\* if let Some(body_content) = body { if !body_content.trim().is_empty() { .body(body_content) } }
add_body(builder, body) ==
    IF body # None /\ trim(body[1]) # <<>>
    THEN [builder EXCEPT !.body = Some(body[1])]
    ELSE builder

---------------------------------------------------------------------------
(* The response normalizer: execute_request after send() *)

\* StatusCode::canonical_reason(), on the status codes the model uses
canonical_reason(status) ==
    CASE status = 200 -> Some("OK")
      [] status = 404 -> Some("Not Found")
      [] OTHER -> None

unwrap_or(opt, default) == IF opt = None THEN default ELSE opt[1]

\* HeaderValue::to_str(): Err unless every byte is visible ASCII (32..126) or a tab
is_visible_ascii(b) == b \notin {"0xFF", "\n", "\r"}

to_str(value) ==
    IF \A k \in 1..Len(value) : is_visible_ascii(value[k]) THEN Some(value) ELSE None

\* A rendering that leaves out a header whose value cannot be decoded.
format_header_skip_undecodable(name, value) ==
    IF to_str(value) = None THEN <<>>
    ELSE name \o <<":", " ">> \o to_str(value)[1] \o <<"\n">>

\* format!("{}: {}\n", name.as_str(), value.to_str().unwrap_or(""))
format_header(name, value) ==
    name \o <<":", " ">> \o unwrap_or(to_str(value), <<>>) \o <<"\n">>

\* for (name, value) in response.headers() { headers_text.push_str(..) }
RECURSIVE format_headers(_)
format_headers(hs) ==
    IF hs = <<>> THEN <<>>
    ELSE format_header(Head(hs).name, Head(hs).value) \o format_headers(Tail(hs))

---------------------------------------------------------------------------
(* serde_json::Value and serde_json::from_str, on numbers, strings and arrays *)

JString(s) == [t |-> "String", s |-> s]
JNumber(n) == [t |-> "Number", n |-> n]
JArray(a) == [t |-> "Array", a |-> a]

Parsed(v, p) == [ok |-> TRUE, value |-> v, pos |-> p]
Failed == [ok |-> FALSE]

is_json_ws(c) == c \in {" ", "\n", "\t", "\r"}
is_digit(c) == c \in {"1"}

\* Deserializer::parse_whitespace: the first position from p on that holds no whitespace
RECURSIVE parse_whitespace(_, _)
parse_whitespace(s, p) ==
    IF p <= Len(s) /\ is_json_ws(s[p]) THEN parse_whitespace(s, p + 1) ELSE p

\* p is the position after the opening quote
RECURSIVE parse_str(_, _, _)
parse_str(s, p, acc) ==
    IF p > Len(s) THEN Failed
    ELSE IF s[p] = "\"" THEN Parsed(JString(acc), p + 1)
    ELSE IF s[p] = "\\"
         THEN IF p + 1 <= Len(s) /\ s[p + 1] \in {"\"", "\\"}
              THEN parse_str(s, p + 2, Append(acc, s[p + 1]))
              ELSE Failed
    ELSE IF s[p] \in {"\n", "\r", "\t"} THEN Failed
    ELSE parse_str(s, p + 1, Append(acc, s[p]))

RECURSIVE parse_integer(_, _, _)
parse_integer(s, p, acc) ==
    IF p <= Len(s) /\ is_digit(s[p])
    THEN parse_integer(s, p + 1, 10 * acc + 1)
    ELSE Parsed(JNumber(acc), p)

RECURSIVE parse_value(_, _)
RECURSIVE parse_seq(_, _, _, _)

\* Value::deserialize -> deserialize_any
parse_value(s, p) ==
    LET q == parse_whitespace(s, p) IN
    IF q > Len(s) THEN Failed
    ELSE IF s[q] = "\"" THEN parse_str(s, q + 1, <<>>)
    ELSE IF is_digit(s[q]) THEN parse_integer(s, q, 0)
    ELSE IF s[q] = "[" THEN parse_seq(s, q + 1, TRUE, <<>>)
    ELSE Failed

\* SeqAccess::next_element_seed, repeated, then end_seq; p is the position after "["
parse_seq(s, p, first, acc) ==
    LET q == parse_whitespace(s, p) IN
    IF q > Len(s) THEN Failed
    ELSE IF s[q] = "]" THEN Parsed(JArray(acc), q + 1)
    ELSE IF s[q] = "," /\ ~first
         THEN LET r == parse_whitespace(s, q + 1) IN
              IF r > Len(s) \/ s[r] = "]" THEN Failed
              ELSE LET e == parse_value(s, r) IN
                   IF e.ok THEN parse_seq(s, e.pos, FALSE, Append(acc, e.value)) ELSE Failed
    ELSE IF first
         THEN LET e == parse_value(s, q) IN
              IF e.ok THEN parse_seq(s, e.pos, FALSE, Append(acc, e.value)) ELSE Failed
    ELSE Failed

\* A parse that accepts a value followed by anything (no Deserializer::end()).
from_str_prefix(s) ==
    LET v == parse_value(s, 1) IN
    IF v.ok THEN Ok(v.value) ELSE Err("expected value")

\* serde_json::from_str::<Value>: one value, then Deserializer::end()
from_str(s) ==
    LET v == parse_value(s, 1) IN
    IF v.ok
    THEN IF parse_whitespace(s, v.pos) > Len(s) THEN Ok(v.value) ELSE Err("trailing characters")
    ELSE Err("expected value")

\* A fallback that wraps the text in a variant of its own.
parse_body_tagged(t) ==
    LET parsed == from_str(t) IN
    IF parsed.tag = "Ok" THEN parsed.value ELSE [t |-> "Text", s |-> t]

\* match from_str(&text) { Ok(json) => json, Err(_) => Value::String(text) }
parse_body(t) ==
    LET parsed == from_str(t) IN
    IF parsed.tag = "Ok" THEN parsed.value ELSE JString(t)

\* The characters of a JSON string, quotes and backslashes escaped
RECURSIVE escape(_)
escape(s) ==
    IF s = <<>> THEN <<>>
    ELSE (IF Head(s) \in {"\"", "\\"} THEN <<"\\", Head(s)>> ELSE <<Head(s)>>) \o escape(Tail(s))

\* The decimal digits of n > 0 (the model's numbers are written with the digit 1 only)
RECURSIVE digits(_)
digits(n) == IF n < 10 THEN <<"1">> ELSE digits(n \div 10) \o <<"1">>

RECURSIVE to_string(_)
RECURSIVE join_values(_)

join_values(a) ==
    IF a = <<>> THEN <<>>
    ELSE IF Len(a) = 1 THEN to_string(a[1])
    ELSE to_string(a[1]) \o <<",">> \o join_values(Tail(a))

\* Serialize for serde_json::Value (the body as the command returns it)
to_string(v) ==
    CASE v.t = "String" -> <<"\"">> \o escape(v.s) \o <<"\"">>
      [] v.t = "Number" -> digits(v.n)
      [] v.t = "Array" -> <<"[">> \o join_values(v.a) \o <<"]">>

---------------------------------------------------------------------------
(* execute_request: one action per stretch of code between two awaits *)

\* A builder that starts from the headers of the requests already handed to the
\* transport, as a client shared between invocations would.
execute_request_shared(i, method, url, headers, body) ==
    /\ pc[i] = "idle"
    /\ call' = [call EXCEPT ![i] =
                   Some([method |-> method, url |-> url, headers |-> headers, body |-> body])]
    /\ LET started == new_builder(method, url) IN
       IF started = None
       THEN /\ result' = [result EXCEPT ![i] = Some(Err("Unsupported HTTP method"))]
            /\ pc' = [pc EXCEPT ![i] = "done"]
            /\ UNCHANGED <<request_builder, sent>>
       ELSE LET carried == IF sent = <<>> THEN <<>> ELSE sent[Len(sent)].req.headers
                built == add_body(add_headers([started[1] EXCEPT !.headers = carried],
                                              headers), body) IN
            /\ request_builder' = [request_builder EXCEPT ![i] = Some(built)]
            /\ sent' = Append(sent, [id |-> i, req |-> built])
            /\ pc' = [pc EXCEPT ![i] = "send"]
            /\ UNCHANGED result
    /\ UNCHANGED <<response, normalized, text, file_vars>>

\* Lines 12-50: the method match, the header loop, the body, and the call of send().
execute_request(i, method, url, headers, body) ==
    /\ pc[i] = "idle"
    /\ call' = [call EXCEPT ![i] =
                   Some([method |-> method, url |-> url, headers |-> headers, body |-> body])]
    /\ LET started == new_builder(method, url) IN
       IF started = None
       THEN /\ result' = [result EXCEPT ![i] = Some(Err("Unsupported HTTP method"))]
            /\ pc' = [pc EXCEPT ![i] = "done"]
            /\ UNCHANGED <<request_builder, sent>>
       ELSE LET built == add_body(add_headers(started[1], headers), body) IN
            /\ request_builder' = [request_builder EXCEPT ![i] = Some(built)]
            /\ sent' = Append(sent, [id |-> i, req |-> built])
            /\ pc' = [pc EXCEPT ![i] = "send"]
            /\ UNCHANGED result
    /\ UNCHANGED <<response, normalized, text, file_vars>>

\* Lines 51-61: send() resolved to Ok(response); status, status_text and headers_text
\* are computed and text() is awaited.
send_responds(i, status, hdrs) ==
    /\ pc[i] = "send"
    /\ response' = [response EXCEPT ![i] = Some([status |-> status, headers |-> hdrs])]
    /\ normalized' = [normalized EXCEPT ![i] =
                         Some([status |-> status,
                               status_text |-> unwrap_or(canonical_reason(status), "Unknown"),
                               headers_text |-> format_headers(hdrs)])]
    /\ pc' = [pc EXCEPT ![i] = "text"]
    /\ UNCHANGED <<call, request_builder, text, result, sent, file_vars>>

\* A failed send() answered by sending the request again.
send_fails_retry(i, e) ==
    /\ pc[i] = "send"
    /\ Len(SelectSeq(sent, LAMBDA d : d.id = i)) < 2
    /\ sent' = Append(sent, [id |-> i, req |-> request_builder[i][1]])
    /\ UNCHANGED <<pc, call, request_builder, response, normalized, text, result, file_vars>>

\* Line 76: send() resolved to Err(e).
send_fails(i, e) ==
    /\ pc[i] = "send"
    /\ result' = [result EXCEPT ![i] = Some(Err(e))]
    /\ pc' = [pc EXCEPT ![i] = "done"]
    /\ UNCHANGED <<call, request_builder, response, normalized, text, sent, file_vars>>

\* Lines 61-74: text() resolved to Ok(text); the body is parsed and the response returned.
text_read(i, t) ==
    /\ pc[i] = "text"
    /\ text' = [text EXCEPT ![i] = Some(t)]
    /\ result' = [result EXCEPT ![i] =
                     Some(Ok([status |-> normalized[i][1].status,
                              status_text |-> normalized[i][1].status_text,
                              headers |-> normalized[i][1].headers_text,
                              body |-> parse_body(t)]))]
    /\ pc' = [pc EXCEPT ![i] = "done"]
    /\ UNCHANGED <<call, request_builder, response, normalized, sent, file_vars>>

\* Line 61: text() resolved to Err(e), returned by `?`.
text_fails(i, e) ==
    /\ pc[i] = "text"
    /\ result' = [result EXCEPT ![i] = Some(Err(e))]
    /\ pc' = [pc EXCEPT ![i] = "done"]
    /\ UNCHANGED <<call, request_builder, response, normalized, text, sent, file_vars>>

---------------------------------------------------------------------------
(* save_request and load_request *)

Paths == {"request.json", "other.json"}

\* What std::fs::write(path, contents) can do: succeed; fail before the file is
\* created; fail after File::create truncated it, with a proper prefix written.
WriteOutcomes(contents) ==
    {[ok |-> TRUE, created |-> TRUE, written |-> Len(contents)],
     [ok |-> FALSE, created |-> FALSE, written |-> 0]}
    \cup {[ok |-> FALSE, created |-> TRUE, written |-> k] : k \in 0..(Len(contents) - 1)}

\* A write that appends to the file instead of replacing it.
fs_write_append(path, contents, outcome) ==
    IF outcome.created
    THEN [fs EXCEPT ![path] = Some(unwrap_or(@, <<>>) \o SubSeq(contents, 1, outcome.written))]
    ELSE fs

\* std::fs::write: File::create (truncating), then write_all.
fs_write(path, contents, outcome) ==
    IF outcome.created
    THEN [fs EXCEPT ![path] = Some(SubSeq(contents, 1, outcome.written))]
    ELSE fs

\* std::fs::read_to_string
fs_read_to_string(path) ==
    IF fs[path] = None THEN Err("No such file or directory") ELSE Ok(fs[path][1])

\* A save that falls back to the dialog's default file name when no path was chosen.
save_request_default_name(request, file_path, outcome) ==
    /\ file_ops < MaxFileOps
    /\ file_ops' = file_ops + 1
    /\ LET path == unwrap_or(file_path, "request.json") IN
       /\ fs' = fs_write(path, request, outcome)
       /\ last_saved' = [last_saved EXCEPT ![path] = IF outcome.ok THEN Some(request) ELSE None]
       /\ file_result' = Some([op |-> "save", path |-> file_path, content |-> request,
                               result |-> IF file_path = None THEN Err("Save cancelled")
                                          ELSE IF outcome.ok THEN Ok("()") ELSE Err("io error")])
    /\ UNCHANGED http_vars

\* save_request: file_path is what blocking_save_file() returned.
save_request(request, file_path, outcome) ==
    /\ file_ops < MaxFileOps
    /\ file_ops' = file_ops + 1
    /\ IF file_path # None
       THEN /\ fs' = fs_write(file_path[1], request, outcome)
            /\ last_saved' = [last_saved EXCEPT ![file_path[1]] =
                                 IF outcome.ok THEN Some(request)
                                 ELSE IF outcome.created THEN None ELSE @]
            /\ file_result' = Some([op |-> "save", path |-> file_path, content |-> request,
                                    result |-> IF outcome.ok THEN Ok("()") ELSE Err("io error")])
       ELSE /\ file_result' = Some([op |-> "save", path |-> None, content |-> request,
                                    result |-> Err("Save cancelled")])
            /\ UNCHANGED <<fs, last_saved>>
    /\ UNCHANGED http_vars

\* load_request: file_path is what blocking_pick_file() returned.
load_request(file_path) ==
    /\ file_ops < MaxFileOps
    /\ file_ops' = file_ops + 1
    /\ IF file_path # None
       THEN file_result' = Some([op |-> "load", path |-> file_path, content |-> <<>>,
                                 result |-> fs_read_to_string(file_path[1])])
       ELSE file_result' = Some([op |-> "load", path |-> None, content |-> <<>>,
                                 result |-> Err("Load cancelled")])
    /\ UNCHANGED <<fs, last_saved>>
    /\ UNCHANGED http_vars

---------------------------------------------------------------------------
(* Inputs and specifications *)

AllMethods == SupportedMethods \cup {"get", "HEAD", ""}
Urls == {"https://example.test/ok", "not a url"}

HeaderAlphabet == {"a", "b", ":", " ", "\n", "\r"}
HeaderTexts == TextsUpTo(HeaderAlphabet, MaxHeadersLen)

\* "A: 1\nbadline\nB: 2" of the specification's example, and the empty block
SampleHeaders == {<<>>, <<"A", ":", " ", "1", "\n", "b", "a", "d", "\n", "B", ":", " ", "2">>}

BodyAlphabet == {"x", " ", "\n"}
Bodies == {None} \cup {Some(b) : b \in TextsUpTo(BodyAlphabet, MaxBodyLen)}

StatusCodes == {200, 404, 599}

HeaderNames == {<<"a">>}
ValueAlphabet == {"a", ":", " ", "0xFF"}
RawHeaders == [name : HeaderNames, value : TextsUpTo(ValueAlphabet, MaxValueLen)]
HeaderCollections == UNION {[1..k -> RawHeaders] : k \in 0..MaxRespHeaders}

SampleResponseHeaders ==
    {<<>>, <<[name |-> <<"c", "t">>, value |-> <<"j", "s", "o", "n">>]>>}

JsonAlphabet == {"1", "a", "\"", "[", "]", ",", " "}
JsonTexts == TextsUpTo(JsonAlphabet, MaxTextLen)

\* a plain text and the JSON string literal that encodes it, twice
PairTexts == {<<"a">>, <<"\"", "a", "\"">>, <<"\"">>, <<"\"", "\\", "\"", "\"">>}
SampleTexts == {<<"[", "1", "]">>, <<"p", "l", "a", "i", "n">>}

SendErrors == {"error sending request"}
TextErrors == {"error decoding response body"}

FileAlphabet == {"x", "y"}
FileContents == TextsUpTo(FileAlphabet, MaxContentLen)

Init ==
    /\ pc = [i \in Invocations |-> "idle"]
    /\ call = [i \in Invocations |-> None]
    /\ request_builder = [i \in Invocations |-> None]
    /\ response = [i \in Invocations |-> None]
    /\ normalized = [i \in Invocations |-> None]
    /\ text = [i \in Invocations |-> None]
    /\ result = [i \in Invocations |-> None]
    /\ sent = <<>>
    /\ fs = [p \in Paths |-> None]
    /\ file_result = None
    /\ last_saved = [p \in Paths |-> None]
    /\ file_ops = 0

\* One invocation, every method, every body.
NextCall ==
    \/ /\ pc[1] = "idle"
       /\ \E method \in AllMethods, url \in Urls, headers \in SampleHeaders, body \in Bodies :
              execute_request(1, method, url, headers, body)
    \/ /\ pc[1] = "send"
       /\ \E status \in StatusCodes, hdrs \in SampleResponseHeaders :
              send_responds(1, status, hdrs)
    \/ \E e \in SendErrors : send_fails(1, e)
    \/ /\ pc[1] = "text"
       /\ \E t \in SampleTexts : text_read(1, t)
    \/ \E e \in TextErrors : text_fails(1, e)

Spec == Init /\ [][NextCall]_vars

\* One invocation, every headers text.
NextHeaders ==
    /\ pc[1] = "idle"
    /\ \E headers \in HeaderTexts :
           execute_request(1, "GET", "https://example.test/ok", headers, None)

SpecHeaders == Init /\ [][NextHeaders]_vars

\* One invocation, every response header collection.
NextFlatten ==
    \/ execute_request(1, "GET", "https://example.test/ok", <<>>, None)
    \/ /\ pc[1] = "send"
       /\ \E hdrs \in HeaderCollections : send_responds(1, 200, hdrs)

SpecFlatten == Init /\ [][NextFlatten]_vars

\* One invocation, every response text.
NextBody ==
    \/ execute_request(1, "GET", "https://example.test/ok", <<>>, None)
    \/ send_responds(1, 200, <<>>)
    \/ /\ pc[1] = "text"
       /\ \E t \in JsonTexts : text_read(1, t)

SpecBody == Init /\ [][NextBody]_vars

\* Concurrent invocations, interleaved at the awaits.
NextConc ==
    \/ \E i \in Invocations, method \in {"POST", "get"}, url \in Urls :
           execute_request(i, method, url, <<"a", ":", "1">>, None)
    \/ \E i \in Invocations, status \in {200, 599} : send_responds(i, status, <<>>)
    \/ \E i \in Invocations, e \in SendErrors : send_fails(i, e)
    \/ \E i \in Invocations, t \in PairTexts : text_read(i, t)
    \/ \E i \in Invocations, e \in TextErrors : text_fails(i, e)

SpecConc == Init /\ [][NextConc]_vars

\* save_request and load_request, one after the other.
NextFile ==
    \/ \E request \in FileContents, file_path \in {None} \cup {Some(p) : p \in Paths} :
           \E outcome \in WriteOutcomes(request) : save_request(request, file_path, outcome)
    \/ \E file_path \in {None} \cup {Some(p) : p \in Paths} : load_request(file_path)

SpecFile == Init /\ [][NextFile]_vars

---------------------------------------------------------------------------
(* What the claims expect, stated by position rather than by the code's loops *)

WhiteSpace == {" ", "\t", "\n", "\r"}

Blank(s) == \A k \in 1..Len(s) : s[k] \in WhiteSpace

\* s without its leading and trailing whitespace
Stripped(s) ==
    IF Blank(s) THEN <<>>
    ELSE LET lo == CHOOSE k \in 1..Len(s) :
                       s[k] \notin WhiteSpace /\ \A j \in 1..(k - 1) : s[j] \in WhiteSpace
             hi == CHOOSE k \in 1..Len(s) :
                       s[k] \notin WhiteSpace /\ \A j \in (k + 1)..Len(s) : s[j] \in WhiteSpace
         IN SubSeq(s, lo, hi)

HasChar(s, c) == \E k \in 1..Len(s) : s[k] = c

FirstIndex(s, c) == CHOOSE k \in 1..Len(s) : s[k] = c /\ ~HasChar(SubSeq(s, 1, k - 1), c)

\* The pairs one line contributes: none, or the one split at its first ':'
ExpectedLinePairs(l) ==
    IF Blank(l) \/ ~HasChar(l, ":") THEN <<>>
    ELSE LET c == FirstIndex(l, ":") IN
         <<[name |-> Stripped(SubSeq(l, 1, c - 1)),
            value |-> Stripped(SubSeq(l, c + 1, Len(l)))]>>

\* The pairs of a headers text: those of its lines, in line order
RECURSIVE ExpectedHeaders(_)
ExpectedHeaders(t) ==
    IF ~HasChar(t, "\n") THEN ExpectedLinePairs(t)
    ELSE LET k == FirstIndex(t, "\n") IN
         ExpectedLinePairs(SubSeq(t, 1, k - 1)) \o ExpectedHeaders(SubSeq(t, k + 1, Len(t)))

Supported(method) == method \in {"GET", "POST", "PUT", "PATCH", "DELETE"}

Dispatches(i) == {k \in 1..Len(sent) : sent[k].id = i}

---------------------------------------------------------------------------
\* C1: an invocation whose method is not exactly GET, POST, PUT, PATCH or DELETE
\* ends with the unsupported-method error; no request was built for it, nothing was
\* handed to the transport, and no response or text was read.
C1_UnsupportedMethodRejected ==
    \A i \in Invocations :
        (call[i] # None /\ ~Supported(call[i][1].method)) =>
            /\ pc[i] = "done"
            /\ result[i] = Some(Err("Unsupported HTTP method"))
            /\ request_builder[i] = None
            /\ Dispatches(i) = {}
            /\ response[i] = None
            /\ text[i] = None

C1_Witness ==
    /\ call[1] # None
    /\ call[1][1].method = "get"
    /\ call[1][1].headers # <<>>
    /\ call[1][1].body = Some(<<"x">>)
    /\ pc[1] = "done"

\* C2: the headers of the built request are, in line order, one pair per line that is
\* not blank and holds a ':', split at the first ':' with both sides trimmed; every
\* other line contributes nothing, and no headers text ends the invocation with an error.
C2_HeadersParsedInLineOrder ==
    \A i \in Invocations :
        (call[i] # None /\ Supported(call[i][1].method)) =>
            /\ request_builder[i] # None
            /\ request_builder[i][1].headers = ExpectedHeaders(call[i][1].headers)
            /\ Dispatches(i) # {}
            /\ pc[i] = "send" => result[i] = None

C2_Witness ==
    /\ request_builder[1] # None
    /\ call[1][1].headers = <<"a", ":", ":", "\n", "b">>
    /\ request_builder[1][1].headers = <<[name |-> <<"a">>, value |-> <<":">>]>>

\* C6: a body that is absent, empty or all whitespace leaves the request without a
\* body; any other body is attached verbatim; the request's method, url and headers
\* are those of the arguments whatever the body is.
C6_BlankBodyIsNoBody ==
    \A i \in Invocations :
        request_builder[i] # None =>
            LET c == call[i][1]
                r == request_builder[i][1]
            IN /\ r.body = IF c.body = None \/ Blank(c.body[1]) THEN None ELSE c.body
               /\ r.method = c.method
               /\ r.url = c.url
               /\ r.headers = ExpectedHeaders(c.headers)
               /\ \A k \in Dispatches(i) : sent[k].req = r

C6_Witness ==
    /\ request_builder[1] # None
    /\ call[1][1].body = Some(<<" ", "\n">>)
    /\ sent[1].req.body = None

---------------------------------------------------------------------------
(* The JSON the model's texts can hold, as a grammar: a value is a number (digits),
   a string (quoted, with \" and \\ escapes) or an array (values between brackets,
   separated by commas), with whitespace allowed around every value *)

JsonSpace == {" ", "\n", "\t", "\r"}

AllSpace(s) == \A k \in 1..Len(s) : s[k] \in JsonSpace

\* s without the whitespace around it
Core(s) ==
    IF AllSpace(s) THEN <<>>
    ELSE LET lo == CHOOSE k \in 1..Len(s) :
                       s[k] \notin JsonSpace /\ \A j \in 1..(k - 1) : s[j] \in JsonSpace
             hi == CHOOSE k \in 1..Len(s) :
                       s[k] \notin JsonSpace /\ \A j \in (k + 1)..Len(s) : s[j] \in JsonSpace
         IN SubSeq(s, lo, hi)

IsNumberText(s) == s # <<>> /\ \A k \in 1..Len(s) : s[k] = "1"

NumberOf(s) == CASE Len(s) = 1 -> 1
                 [] Len(s) = 2 -> 11
                 [] Len(s) = 3 -> 111
                 [] Len(s) = 4 -> 1111
                 [] Len(s) = 5 -> 11111
                 [] Len(s) = 6 -> 111111
                 [] Len(s) = 7 -> 1111111

\* The characters between the quotes of a string literal
RECURSIVE IsStringBody(_)
IsStringBody(x) ==
    \/ x = <<>>
    \/ /\ x # <<>>
       /\ x[1] \notin {"\"", "\\", "\n", "\r", "\t"}
       /\ IsStringBody(Tail(x))
    \/ /\ Len(x) >= 2
       /\ x[1] = "\\"
       /\ x[2] \in {"\"", "\\"}
       /\ IsStringBody(SubSeq(x, 3, Len(x)))

RECURSIVE Unescaped(_)
Unescaped(x) ==
    IF x = <<>> THEN <<>>
    ELSE IF x[1] = "\\" THEN <<x[2]>> \o Unescaped(SubSeq(x, 3, Len(x)))
    ELSE <<x[1]>> \o Unescaped(Tail(x))

IsStringText(s) ==
    /\ Len(s) >= 2
    /\ s[1] = "\""
    /\ s[Len(s)] = "\""
    /\ IsStringBody(SubSeq(s, 2, Len(s) - 1))

RECURSIVE IsValueText(_)
RECURSIVE IsElements(_)
RECURSIVE ValueOf(_)
RECURSIVE ElementsOf(_)

\* s, with no whitespace around it, is one JSON value
IsValueText(s) ==
    \/ IsNumberText(s)
    \/ IsStringText(s)
    \/ /\ Len(s) >= 2
       /\ s[1] = "["
       /\ s[Len(s)] = "]"
       /\ LET inner == SubSeq(s, 2, Len(s) - 1) IN AllSpace(inner) \/ IsElements(inner)

\* x is one value, or a value, a comma and more elements
IsElements(x) ==
    \/ IsValueText(Core(x))
    \/ \E k \in 1..Len(x) :
           /\ x[k] = ","
           /\ IsValueText(Core(SubSeq(x, 1, k - 1)))
           /\ IsElements(SubSeq(x, k + 1, Len(x)))

ValueOf(s) ==
    IF IsNumberText(s) THEN [t |-> "Number", n |-> NumberOf(s)]
    ELSE IF IsStringText(s) THEN [t |-> "String", s |-> Unescaped(SubSeq(s, 2, Len(s) - 1))]
    ELSE LET inner == SubSeq(s, 2, Len(s) - 1) IN
         [t |-> "Array", a |-> IF AllSpace(inner) THEN <<>> ELSE ElementsOf(inner)]

ElementsOf(x) ==
    IF IsValueText(Core(x)) THEN <<ValueOf(Core(x))>>
    ELSE LET k == CHOOSE k \in 1..Len(x) :
                      /\ x[k] = ","
                      /\ IsValueText(Core(SubSeq(x, 1, k - 1)))
                      /\ IsElements(SubSeq(x, k + 1, Len(x)))
         IN <<ValueOf(Core(SubSeq(x, 1, k - 1)))>> \o ElementsOf(SubSeq(x, k + 1, Len(x)))

IsJson(s) == IsValueText(Core(s))

\* The JSON string literal that encodes the text s
RECURSIVE Escaped(_)
Escaped(s) ==
    IF s = <<>> THEN <<>>
    ELSE IF s[1] = "\"" THEN <<"\\", "\"">> \o Escaped(Tail(s))
    ELSE IF s[1] = "\\" THEN <<"\\", "\\">> \o Escaped(Tail(s))
    ELSE <<s[1]>> \o Escaped(Tail(s))

Quoted(s) == <<"\"">> \o Escaped(s) \o <<"\"">>

\* The body a response text must yield: the JSON value, or the whole text as a string
ExpectedBody(t) == IF IsJson(t) THEN ValueOf(Core(t)) ELSE [t |-> "String", s |-> t]

---------------------------------------------------------------------------
\* C3: once the response text is read the invocation returns Ok, and the body is the
\* JSON value of the whole text when the text is valid JSON, and otherwise the string
\* holding the whole text: never an error, never the value of a part of the text.
C3_BodyIsJsonOrWholeText ==
    \A i \in Invocations :
        text[i] # None =>
            /\ pc[i] = "done"
            /\ result[i] # None
            /\ result[i][1].tag = "Ok"
            /\ result[i][1].value.body = ExpectedBody(text[i][1])

C3_Witness ==
    /\ text[1] = Some(<<"[", "1", "]", "a">>)
    /\ result[1] # None
    /\ result[1][1].tag = "Ok"
    /\ result[1][1].value.body = [t |-> "String", s |-> <<"[", "1", "]", "a">>]

---------------------------------------------------------------------------
\* The header round trip: the flattened response headers, parsed by the request
\* builder's header loop and flattened again, are the same text, and the parsed
\* pairs are the response's headers one for one, an undecodable value read as "".
HeaderRoundTrip(i) ==
    LET hs == response[i][1].headers
        flat == normalized[i][1].headers_text
        parsed == add_headers([method |-> "GET", url |-> <<>>, headers |-> <<>>, body |-> None],
                              flat).headers
    IN /\ format_headers(parsed) = flat
       /\ Len(parsed) = Len(hs)
       /\ \A k \in 1..Len(hs) :
              /\ parsed[k].name = hs[k].name
              /\ parsed[k].value = IF HasChar(hs[k].value, "0xFF") THEN <<>> ELSE hs[k].value

\* A header value that is undecodable, or has no whitespace at either end
EdgeTrimmed(v) ==
    \/ HasChar(v, "0xFF")
    \/ v = <<>>
    \/ v[1] \notin WhiteSpace /\ v[Len(v)] \notin WhiteSpace

\* C5 as claimed: the round trip holds for every header collection the normalizer
\* flattened.
C5_RoundTripEveryCollection ==
    \A i \in Invocations : normalized[i] # None => HeaderRoundTrip(i)

\* C5, amended: the round trip holds for every flattened header collection whose
\* decodable values have no leading or trailing whitespace.
C5_RoundTripTrimmedValues ==
    \A i \in Invocations :
        (/\ normalized[i] # None
         /\ \A k \in 1..Len(response[i][1].headers) : EdgeTrimmed(response[i][1].headers[k].value))
        => HeaderRoundTrip(i)

C5_Witness ==
    /\ normalized[1] # None
    /\ response[1][1].headers = <<[name |-> <<"a">>, value |-> <<"0xFF">>],
                                  [name |-> <<"a">>, value |-> <<"a", ":">>]>>
    /\ normalized[1][1].headers_text = <<"a", ":", " ", "\n", "a", ":", " ", "a", ":", "\n">>
    /\ HeaderRoundTrip(1)

---------------------------------------------------------------------------
ReturnedOk(i) == result[i] # None /\ result[i][1].tag = "Ok"

\* C4 as claimed: the body of a non-JSON text T differs from the body of the JSON
\* string literal that encodes T, and serializing the body of T gives T back.
C4_FallbackIsTagged ==
    \A i \in Invocations :
        (ReturnedOk(i) /\ ~IsJson(text[i][1])) =>
            /\ to_string(result[i][1].value.body) = text[i][1]
            /\ \A j \in Invocations :
                   (ReturnedOk(j) /\ text[j][1] = Quoted(text[i][1])) =>
                       result[j][1].value.body # result[i][1].value.body

\* C4, amended: the body is an untagged JSON value. The body of a non-JSON text T is
\* the JSON string with content T, which is also the body of the JSON string literal
\* that encodes T; serializing it gives that literal, which parses back to the body.
C4_FallbackIsJsonString ==
    \A i \in Invocations :
        (ReturnedOk(i) /\ ~IsJson(text[i][1])) =>
            /\ result[i][1].value.body = [t |-> "String", s |-> text[i][1]]
            /\ to_string(result[i][1].value.body) = Quoted(text[i][1])
            /\ from_str(to_string(result[i][1].value.body)) = Ok(result[i][1].value.body)
            /\ \A j \in Invocations :
                   (ReturnedOk(j) /\ text[j][1] = Quoted(text[i][1])) =>
                       result[j][1].value.body = result[i][1].value.body

C4_Witness ==
    /\ ReturnedOk(1)
    /\ ReturnedOk(2)
    /\ text[1] = Some(<<"a">>)
    /\ text[2] = Some(<<"\"", "a", "\"">>)
    /\ result[1][1].value.body = result[2][1].value.body

---------------------------------------------------------------------------
ExpectedStatusText(status) ==
    IF status = 200 THEN "OK" ELSE IF status = 404 THEN "Not Found" ELSE "Unknown"

\* The text of a header collection whose values are all decodable
RECURSIVE ExpectedHeadersText(_)
ExpectedHeadersText(hs) ==
    IF hs = <<>> THEN <<>>
    ELSE ExpectedHeadersText(SubSeq(hs, 1, Len(hs) - 1))
         \o hs[Len(hs)].name \o <<":", " ">> \o hs[Len(hs)].value \o <<"\n">>

\* The request an invocation hands to the transport, from its arguments alone
ExpectedRequest(c) ==
    [method |-> c.method, url |-> c.url, headers |-> ExpectedHeaders(c.headers),
     body |-> IF c.body = None \/ Blank(c.body[1]) THEN None ELSE c.body]

\* The complete result of a response and its text
ExpectedResponse(resp, t) ==
    [status |-> resp.status, status_text |-> ExpectedStatusText(resp.status),
     headers |-> ExpectedHeadersText(resp.headers), body |-> ExpectedBody(t)]

\* C7: an invocation with a supported method hands exactly one request to the
\* transport, whatever follows; it returns nothing before it is done, and when done
\* it returns the complete result of the transport's response if the response came and
\* its text was read, and otherwise an error that carries nothing else.
C7_OneDispatchOneOutcome ==
    \A i \in Invocations :
        (call[i] # None /\ Supported(call[i][1].method)) =>
            /\ Cardinality(Dispatches(i)) = 1
            /\ pc[i] # "done" => result[i] = None
            /\ pc[i] = "done" =>
                   /\ result[i] # None
                   /\ IF response[i] # None /\ text[i] # None
                      THEN result[i][1] = Ok(ExpectedResponse(response[i][1], text[i][1]))
                      ELSE /\ result[i][1].tag = "Err"
                           /\ DOMAIN result[i][1] = {"tag", "error"}
                           /\ result[i][1].error \in
                                  IF response[i] = None THEN SendErrors ELSE TextErrors

C7_Witness ==
    /\ pc[1] = "done"
    /\ response[1] # None
    /\ response[1][1].status = 200
    /\ text[1] = None
    /\ result[1] = Some(Err("error decoding response body"))
    /\ Cardinality(Dispatches(1)) = 1

\* C10: under every interleaving, the request each invocation hands to the transport
\* is the one its own arguments give and is its only one, and its result is the one
\* its own response and text give, whatever the other invocations do.
C10_InvocationsIndependent ==
    \A i \in Invocations :
        /\ request_builder[i] # None =>
               /\ request_builder[i][1] = ExpectedRequest(call[i][1])
               /\ Cardinality(Dispatches(i)) = 1
               /\ \A k \in Dispatches(i) : sent[k].req = ExpectedRequest(call[i][1])
        /\ request_builder[i] = None => Dispatches(i) = {}
        /\ result[i] # None =>
               result[i][1] =
                   IF ~Supported(call[i][1].method) THEN Err("Unsupported HTTP method")
                   ELSE IF response[i] = None THEN Err("error sending request")
                   ELSE IF text[i] = None THEN Err("error decoding response body")
                   ELSE Ok(ExpectedResponse(response[i][1], text[i][1]))

C10_Witness ==
    /\ Len(sent) = 2
    /\ pc[1] = "text"
    /\ pc[2] = "done"
    /\ sent[1].id = 1
    /\ sent[2].id = 2
    /\ call[1] # call[2]
    /\ response[1] # response[2]
    /\ ReturnedOk(2)

---------------------------------------------------------------------------
\* A step that is a save_request or load_request in which the dialog returned no path
CancelledStep ==
    /\ file_ops' = file_ops + 1
    /\ file_result' # None
    /\ file_result'[1].path = None

\* C8: a save_request whose dialog is dismissed returns Err("Save cancelled"), a
\* load_request whose dialog is dismissed returns Err("Load cancelled"), and either
\* leaves every file as it was.
C8_CancelChangesNothing ==
    [][CancelledStep =>
          /\ fs' = fs
          /\ file_result'[1].result =
                 IF file_result'[1].op = "save" THEN Err("Save cancelled")
                 ELSE Err("Load cancelled")]_vars

C8_Witness ==
    /\ file_result # None
    /\ file_result[1].op = "save"
    /\ file_result[1].path = None
    /\ file_result[1].content = <<"x", "y">>
    /\ file_result[1].result = Err("Save cancelled")
    /\ fs["request.json"] = Some(<<"x">>)
    /\ fs["other.json"] = None

\* C9: a load_request that chooses a path whose last write was a successful save of
\* content C returns Ok(C); a successful save leaves exactly its content in the file,
\* whatever the file held before.
C9_LoadReturnsLastSave ==
    file_result # None =>
        LET r == file_result[1] IN
        /\ (r.op = "load" /\ r.path # None /\ last_saved[r.path[1]] # None) =>
               r.result = Ok(last_saved[r.path[1]][1])
        /\ (r.op = "save" /\ r.result.tag = "Ok") =>
               /\ r.path # None
               /\ fs[r.path[1]] = Some(r.content)
               /\ last_saved[r.path[1]] = Some(r.content)

C9_Witness ==
    /\ file_result # None
    /\ file_result[1].op = "load"
    /\ file_result[1].path = Some("other.json")
    /\ file_result[1].result = Ok(<<"y">>)
    /\ last_saved["other.json"] = Some(<<"y">>)
    /\ fs["request.json"] = Some(<<"x">>)

=============================================================================
